---- MODULE Spec2Model ----
(***************************************************************************)
(* Model of analysis.py (RoelandKramer/radar_graph):                       *)
(*   build_df_averages, build_league_tables, compare_player_to_eredivisie. *)
(*                                                                         *)
(* A DataFrame is a sequence of rows (records); a missing Python value     *)
(* (None) is the empty sequence and a present one a one-element sequence.  *)
(* Floats are exact rationals <<numerator, denominator>> in lowest terms   *)
(* with a positive denominator; floating-point rounding is not modelled    *)
(* and no cell is missing (NaN) except the column maximum of an empty      *)
(* frame.                                                                  *)
(***************************************************************************)
EXTENDS Integers, Sequences, FiniteSets, TLC

VARIABLES
    \* ---- compare_player_to_eredivisie: arguments
    player_name,
    kkd_averages_plus3matches,
    eredivisie_averages_plus3matches,
    percentile,
    second_player_name,
    position_plot,
    \* ---- compare_player_to_eredivisie: outcome
    pc,            \* "call" before the call, "returned" or "raised" after it
    exc,           \* None, or <<exception>> when the call raised
    meta,          \* None, or <<meta dict>> when the call returned
    fig,           \* None, or <<the values drawn on the radar chart>>
    locals,        \* None, or <<locals of the benchmark selection step>>
    \* ---- build_df_averages / build_league_tables (app.build_tables)
    columns,       \* df_all.columns
    df_all,        \* rows of the raw match table
    agg_pc,        \* "loaded", "averaged", "partitioned" or "raised"
    agg_exc,       \* None, or <<exception>> raised by build_df_averages
    df_averages,
    eredivisie_plus3,
    kkd_plus3

vars == <<player_name, kkd_averages_plus3matches, eredivisie_averages_plus3matches,
          percentile, second_player_name, position_plot, pc, exc, meta, fig, locals,
          columns, df_all, agg_pc, agg_exc, df_averages, eredivisie_plus3, kkd_plus3>>

cmpVars == <<player_name, kkd_averages_plus3matches, eredivisie_averages_plus3matches,
             percentile, second_player_name, position_plot, pc, exc, meta, fig, locals>>

aggVars == <<columns, df_all, agg_pc, agg_exc, df_averages, eredivisie_plus3, kkd_plus3>>

-----------------------------------------------------------------------------
(* Python values *)

None == <<>>

Some(x) == <<x>>

\* Truthiness of an optional string: None and "" are falsy.
Truthy(opt) == opt # None /\ opt[1] # ""

-----------------------------------------------------------------------------
(* Exact rational arithmetic standing for float arithmetic *)

Abs(n) == IF n < 0 THEN -n ELSE n

RECURSIVE GCD(_, _)
GCD(a, b) == IF b = 0 THEN a ELSE GCD(b, a % b)

\* n / d for d > 0, in lowest terms
Rat(n, d) == LET g == GCD(Abs(n), d) IN <<n \div g, d \div g>>

RatAdd(x, y) == Rat(x[1] * y[2] + y[1] * x[2], x[2] * y[2])

RatLess(x, y) == x[1] * y[2] < y[1] * x[2]

RatLeq(x, y) == x[1] * y[2] <= y[1] * x[2]

Zero == Rat(0, 1)

-----------------------------------------------------------------------------
(* DataFrame helpers *)

\* df[df[col] == value]: the rows that match, in their original order
Where(df, col, value) == SelectSeq(df, LAMBDA row : row[col] = value)

Range(s) == {s[i] : i \in 1..Len(s)}

SetMax(S) == CHOOSE x \in S : \A y \in S : y <= x

Min(a, b) == IF a <= b THEN a ELSE b

-----------------------------------------------------------------------------
(* compare_player_to_eredivisie *)

METRICS_PLOT ==
    <<"avg_total_distance", "avg_HI_distance", "avg_sprint_distance",
      "avg_HI_runs", "avg_sprint_runs">>

scoring_metrics == <<"avg_total_distance", "avg_HI_runs", "avg_sprint_runs">>

ValueError(msg) == [type |-> "ValueError", msg |-> msg]

\* What pandas raises for .iloc[0] on a frame without rows.
IndexError == [type |-> "IndexError", msg |-> <<"single positional indexer is out-of-bounds">>]

\* Variant: 0 accepted (0 <= percentile <= 1).
ValidPercentileClosed(p) == 0 <= p[1] /\ p[1] <= p[2]

\* 0 < percentile <= 1, the percentile being percentile[1] / percentile[2]
ValidPercentile(p) == 0 < p[1] /\ p[1] <= p[2]

\* df[m].max(): undefined (NaN, here None) for a frame without rows
ColumnMax(df, m) ==
    IF Len(df) = 0 THEN None ELSE Some(SetMax({df[i][m] : i \in 1..Len(df)}))

\* row[plot_metrics].tolist()
PlotValues(row) == [k \in 1..Len(METRICS_PLOT) |-> row[METRICS_PLOT[k]]]

\* Variant: the last row (df.iloc[-1]).
IlocLast(df) == df[Len(df)]

\* df.iloc[0] of a frame that has rows
Iloc0(df) == df[1]

p1_data == Where(kkd_averages_plus3matches, "player_name", player_name)

target_position ==
    IF position_plot # None THEN position_plot[1] ELSE Iloc0(p1_data).position

p2_data == Where(kkd_averages_plus3matches, "player_name", second_player_name[1])

\* Lines 137-139: .iloc[0] is evaluated before the emptiness test.
Player2Exception(data, name) ==
    IF Len(data) = 0
    THEN Some(IndexError)
    ELSE IF data = <<>>
         THEN Some(ValueError(<<"Player 2 '", name, "' not found in KKD table (plus3matches).">>))
         ELSE None

\* Variant: the benchmark cohort without the position filter.
df_ere_all_positions == eredivisie_averages_plus3matches

df_ere == Where(eredivisie_averages_plus3matches, "position", target_position)

\* Variant: the maxima of the position group instead of the whole cohort.
position_maxes == [m \in Range(METRICS_PLOT) |-> ColumnMax(df_ere, m)]

\* eredivisie_averages_plus3matches[plot_metrics].max()
ere_real_maxes ==
    [m \in Range(METRICS_PLOT) |-> ColumnMax(eredivisie_averages_plus3matches, m)]

\* (row[m] / mx) if mx and mx > 0 else 0.0 ; a NaN maximum is truthy but not > 0
ScoreTerm(row, m, maxes) ==
    LET mx == maxes[m]
    IN  IF (mx = None \/ mx[1] # 0) /\ (mx # None /\ mx[1] > 0)
        THEN Rat(row[m], mx[1])
        ELSE Zero

RECURSIVE SumTerms(_, _, _, _)
SumTerms(row, metrics, k, maxes) ==
    IF k = 0 THEN Zero
    ELSE RatAdd(SumTerms(row, metrics, k - 1, maxes), ScoreTerm(row, metrics[k], maxes))

calculate_focused_score(row, maxes) ==
    SumTerms(row, scoring_metrics, Len(scoring_metrics), maxes)

\* df_ere["focused_score"] = df_ere.apply(calculate_focused_score, axis=1)
WithFocusedScore(df, maxes) ==
    [i \in 1..Len(df) |->
        [f \in (DOMAIN df[i]) \cup {"focused_score"} |->
            IF f = "focused_score" THEN calculate_focused_score(df[i], maxes) ELSE df[i][f]]]

\* The scores in ascending order (the focused_score column after sort_values).
RECURSIVE InsertScore(_, _)
InsertScore(sorted, x) ==
    IF sorted = <<>> THEN <<x>>
    ELSE IF RatLess(x, Head(sorted)) THEN <<x>> \o sorted
         ELSE <<Head(sorted)>> \o InsertScore(Tail(sorted), x)

RECURSIVE SortScores(_, _)
SortScores(scored, k) ==
    IF k = 0 THEN <<>>
    ELSE InsertScore(SortScores(scored, k - 1), scored[k].focused_score)

\* Variant: descending order (ascending=False).
SortedScoresDescending(scored) ==
    [k \in 1..Len(scored) |-> SortScores(scored, Len(scored))[Len(scored) + 1 - k]]

SortedScores(scored) == SortScores(scored, Len(scored))

\* Variant: round(count * percentile) instead of int(count * percentile).
TargetIndexRounded(count, p) ==
    LET target_index == (2 * count * p[1] + p[2]) \div (2 * p[2])
    IN  IF target_index >= count THEN count - 1 ELSE target_index

\* int(count * percentile), lowered to count - 1 when it reaches count
TargetIndex(count, p) ==
    LET target_index == (count * p[1]) \div p[2]
    IN  IF target_index >= count THEN count - 1 ELSE target_index

\* Variant: the row one rank below (a 1-based rank read as 0-based).
SortedIlocRankBelow(scored, target_index) ==
    LET score_at_rank ==
            SortedScores(scored)[IF target_index = 0 THEN 1 ELSE target_index]
    IN  {scored[i] : i \in {j \in 1..Len(scored) :
            scored[j].focused_score = score_at_rank}}

\* df.sort_values(by="focused_score", ascending=True).iloc[target_index]:
\* sort_values uses pandas' default kind="quicksort", which is not a stable
\* sort, so rows with equal scores may come out in any order.  The row at
\* target_index is then any row whose score is the score at that rank.
SortedIloc(scored, target_index) ==
    LET score_at_rank == SortedScores(scored)[target_index + 1]
    IN  {scored[i] : i \in {j \in 1..Len(scored) :
            scored[j].focused_score = score_at_rank}}

Raised(e) ==
    [pc |-> "raised", exc |-> Some(e), meta |-> None, fig |-> None, locals |-> None]

Returned(benchmark_player, scored, target_index) ==
    [pc |-> "returned",
     exc |-> None,
     meta |-> Some([benchmark_name |-> benchmark_player.player_name,
                    target_position |-> target_position,
                    player1_club |-> Iloc0(p1_data).club,
                    player2_club |-> IF Truthy(second_player_name)
                                     THEN Some(Iloc0(p2_data).club) ELSE None,
                    percentile |-> percentile]),
     fig |-> Some([p1_values |-> PlotValues(Iloc0(p1_data)),
                   p1_games |-> Iloc0(p1_data).matches_more_than_80,
                   p2_values |-> IF Truthy(second_player_name)
                                 THEN Some(PlotValues(Iloc0(p2_data))) ELSE None,
                   benchmark_vals |-> PlotValues(benchmark_player)]),
     locals |-> Some([df_ere |-> scored,
                      focused_score |-> SortedScores(scored),
                      count |-> Len(scored),
                      target_index |-> target_index,
                      benchmark_player |-> benchmark_player])]

\* Every way one call can end, in the order the function tests for them.
CompareOutcomes ==
    IF ~ValidPercentile(percentile)
    THEN {Raised(ValueError(<<"percentile must be in (0, 1].">>))}
    ELSE IF Len(p1_data) = 0
    THEN {Raised(ValueError(<<"Player 1 '", player_name, "' not found in table.">>))}
    ELSE IF Truthy(second_player_name)
            /\ Player2Exception(p2_data, second_player_name[1]) # None
    THEN {Raised(Player2Exception(p2_data, second_player_name[1])[1])}
    ELSE IF Len(df_ere) = 0
    THEN {Raised(ValueError(<<"No Eredivisie data found for position '",
                              target_position, "'.">>))}
    ELSE UNION {{Returned(benchmark_player, scored, target_index) :
                    benchmark_player \in SortedIloc(scored, target_index)} :
                <<scored, target_index>> \in
                    {<<WithFocusedScore(df, maxes), TargetIndex(Len(df), percentile)>> :
                        df \in {df_ere}, maxes \in {ere_real_maxes}}}

Compare ==
    /\ pc = "call"
    /\ \E out \in CompareOutcomes :
        /\ pc' = out.pc
        /\ exc' = out.exc
        /\ meta' = out.meta
        /\ fig' = out.fig
        /\ locals' = out.locals
    /\ UNCHANGED <<player_name, kkd_averages_plus3matches,
                   eredivisie_averages_plus3matches, percentile,
                   second_player_name, position_plot>>
    /\ UNCHANGED aggVars

-----------------------------------------------------------------------------
(* build_df_averages *)

required_cols ==
    <<"Minutes", "player_id", "player_name", "club", "position", "division",
      "total_distance", "high_intensity_distance", "sprint_distance",
      "hi_runs", "sprint_runs">>

group_cols == <<"player_id", "player_name", "club", "position", "division">>

\* [c for c in required_cols if c not in df_all.columns]
missing == SelectSeq(required_cols, LAMBDA c : c \notin columns)

\* Variant: strictly more than 80 minutes.
MinutesFilterStrict(df) == SelectSeq(df, LAMBDA row : row.Minutes > 80)

\* df_all[df_all["Minutes"] >= 80]
MinutesFilter(df) == SelectSeq(df, LAMBDA row : row.Minutes >= 80)

df_filtered == MinutesFilter(df_all)

GroupKey(row) == [k \in 1..Len(group_cols) |-> row[group_cols[k]]]

\* Alphabetical order of the strings that occur in key columns.
StrOrder ==
    <<"A", "Ajax", "B", "CB", "CM", "Eredivisie", "FC Den Bosch", "KKD">>

\* player_id is a number, the other key columns are strings.
Rank(k, v) ==
    IF group_cols[k] = "player_id" THEN v
    ELSE CHOOSE i \in 1..Len(StrOrder) : StrOrder[i] = v

\* Lexicographic order of group keys: groupby(...) returns the groups sorted by key.
RECURSIVE KeyLessFrom(_, _, _)
KeyLessFrom(a, b, k) ==
    IF k > Len(a) THEN FALSE
    ELSE IF Rank(k, a[k]) # Rank(k, b[k]) THEN Rank(k, a[k]) < Rank(k, b[k])
         ELSE KeyLessFrom(a, b, k + 1)

KeyLess(a, b) == KeyLessFrom(a, b, 1)

\* The keys that have at least one row, in ascending order.
RECURSIVE SortKeys(_)
SortKeys(keys) ==
    IF keys = {} THEN <<>>
    ELSE LET least == CHOOSE a \in keys : \A b \in keys \ {a} : KeyLess(a, b)
         IN  <<least>> \o SortKeys(keys \ {least})

RECURSIVE ColumnSum(_, _)
ColumnSum(df, col) ==
    IF df = <<>> THEN 0 ELSE Head(df)[col] + ColumnSum(Tail(df), col)

\* ("col", "mean") over the rows of one group
Mean(group, col) == Rat(ColumnSum(group, col), Len(group))

AggregateGroup(key, group) ==
    [player_id            |-> key[1],
     player_name          |-> key[2],
     club                 |-> key[3],
     position             |-> key[4],
     division             |-> key[5],
     avg_total_distance   |-> Mean(group, "total_distance"),
     avg_HI_distance      |-> Mean(group, "high_intensity_distance"),
     avg_sprint_distance  |-> Mean(group, "sprint_distance"),
     avg_HI_runs          |-> Mean(group, "hi_runs"),
     avg_sprint_runs      |-> Mean(group, "sprint_runs"),
     matches_more_than_80 |-> Len(group)]

\* df.groupby(group_cols).agg(...).reset_index()
GroupByAgg(df) ==
    LET keys == SortKeys({GroupKey(df[i]) : i \in 1..Len(df)})
    IN  [g \in 1..Len(keys) |->
            AggregateGroup(keys[g], SelectSeq(df, LAMBDA row : GroupKey(row) = keys[g]))]

BuildDfAverages ==
    /\ agg_pc = "loaded"
    /\ IF missing # <<>>
       THEN /\ agg_pc' = "raised"
            /\ agg_exc' = Some(ValueError(<<"Missing required columns in CSV: ", missing>>))
            /\ UNCHANGED df_averages
       ELSE /\ agg_pc' = "averaged"
            /\ df_averages' = GroupByAgg(df_filtered)
            /\ UNCHANGED agg_exc
    /\ UNCHANGED <<columns, df_all, eredivisie_plus3, kkd_plus3>>
    /\ UNCHANGED cmpVars

-----------------------------------------------------------------------------
(* build_league_tables *)

\* Variant: at least 2 matches.
Plus2(df) == SelectSeq(df, LAMBDA row : row.matches_more_than_80 >= 2)

\* df[df["matches_more_than_80"] > 2]
Plus3(df) == SelectSeq(df, LAMBDA row : row.matches_more_than_80 > 2)

BuildLeagueTables ==
    /\ agg_pc = "averaged"
    /\ agg_pc' = "partitioned"
    /\ eredivisie_plus3' = Plus3(Where(df_averages, "division", "Eredivisie"))
    /\ kkd_plus3' = Plus3(Where(df_averages, "division", "KKD"))
    /\ UNCHANGED <<columns, df_all, agg_exc, df_averages>>
    /\ UNCHANGED cmpVars

-----------------------------------------------------------------------------
(* Inputs *)

MaxCohort == 3    \* longest benchmark cohort of mixed positions and metric values

MaxGroup == 10    \* longest single-position benchmark cohort

MaxRows == 4      \* most rows of the raw match table

\* Percentiles n/100; the dashboard's slider moves in steps of 0.01.
Percentiles == {<<n, 100>> : n \in {-5, 0, 9, 50, 100, 150}}

AverageRow(name, club, position, games, td, hi, sr) ==
    [player_name          |-> name,
     club                 |-> club,
     position             |-> position,
     matches_more_than_80 |-> games,
     avg_total_distance   |-> td,
     avg_HI_distance      |-> 1,
     avg_sprint_distance  |-> 1,
     avg_HI_runs          |-> hi,
     avg_sprint_runs      |-> sr]

\* Subject cohorts: player "A" occurs twice, with different positions and clubs.
Squad ==
    <<AverageRow("A", "FC Den Bosch", "CM", 1, 9, 3, 2),
      AverageRow("A", "Jong Ajax", "CB", 4, 8, 2, 1),
      AverageRow("B", "FC Den Bosch", "CB", 3, 7, 1, 0)>>

SubjectCohorts ==
    {Squad,
     <<AverageRow("B", "FC Den Bosch", "CB", 3, 7, 1, 0),
       AverageRow("A", "Jong Ajax", "CB", 4, 8, 2, 1),
       AverageRow("A", "FC Den Bosch", "CM", 1, 9, 3, 2)>>}

\* <<avg_total_distance, avg_HI_runs, avg_sprint_runs>> of a benchmark row
Profiles == {<<2, 0, -1>>, <<1, 1, 0>>, <<1, 0, 1>>}

RankProfiles == {<<1, 0, 0>>, <<2, 0, 0>>}

\* Benchmark cohorts of at most max rows; row i is named "E<i>".
Cohorts(lengths, positions, profiles) ==
    UNION {{[i \in 1..n |->
                AverageRow("E" \o ToString(i), "Ajax", c[i][1], 3,
                           c[i][2][1], c[i][2][2], c[i][2][3])] :
            c \in [1..n -> positions \X profiles]} : n \in lengths}

IdleAggregator ==
    /\ columns = {}
    /\ df_all = <<>>
    /\ agg_pc = "idle"
    /\ agg_exc = None
    /\ df_averages = <<>>
    /\ eredivisie_plus3 = <<>>
    /\ kkd_plus3 = <<>>

NotCalled ==
    /\ pc = "call"
    /\ exc = None
    /\ meta = None
    /\ fig = None
    /\ locals = None

\* Any request against a short benchmark cohort of mixed positions.
InitRequest ==
    /\ player_name \in {"A", "Z"}
    /\ second_player_name \in {None, Some("B"), Some("Z")}
    /\ position_plot \in {None, Some("CB")}
    /\ kkd_averages_plus3matches \in SubjectCohorts
    /\ percentile \in Percentiles
    /\ eredivisie_averages_plus3matches \in Cohorts(0..MaxCohort, {"CB", "CM"}, Profiles)

\* A request for player "A" alone against a long cohort of one position.
InitRank ==
    /\ player_name = "A"
    /\ second_player_name = None
    /\ position_plot = Some("CB")
    /\ kkd_averages_plus3matches = Squad
    /\ percentile \in Percentiles
    /\ eredivisie_averages_plus3matches \in Cohorts(1..MaxGroup, {"CB"}, RankProfiles)

Init ==
    /\ InitRequest \/ InitRank
    /\ NotCalled
    /\ IdleAggregator

Next == Compare

Spec == Init /\ [][Next]_vars

\* Raw match rows: three group keys, minutes around the threshold, two distances.
MatchKeys ==
    {<<1, "A", "Ajax", "CB", "Eredivisie">>,
     <<1, "A", "Ajax", "CM", "Eredivisie">>,
     <<2, "B", "FC Den Bosch", "CB", "KKD">>}

MatchRows ==
    {[Minutes                 |-> m,
      player_id               |-> k[1],
      player_name             |-> k[2],
      club                    |-> k[3],
      position                |-> k[4],
      division                |-> k[5],
      total_distance          |-> td,
      high_intensity_distance |-> 2,
      sprint_distance         |-> 1,
      hi_runs                 |-> k[1],
      sprint_runs             |-> 0] :
     m \in {79, 80}, k \in MatchKeys, td \in {10, 13}}

InitAgg ==
    /\ df_all \in UNION {[1..n -> MatchRows] : n \in 0..MaxRows}
    /\ columns \in {Range(required_cols),
                    Range(required_cols) \cup {"match_id"},
                    Range(required_cols) \ {"Minutes"},
                    Range(required_cols) \ {"hi_runs", "sprint_runs"}}
    /\ (missing # <<>> => Len(df_all) <= 1)
    /\ agg_pc = "loaded"
    /\ agg_exc = None
    /\ df_averages = <<>>
    /\ eredivisie_plus3 = <<>>
    /\ kkd_plus3 = <<>>
    /\ player_name = ""
    /\ second_player_name = None
    /\ position_plot = None
    /\ kkd_averages_plus3matches = <<>>
    /\ eredivisie_averages_plus3matches = <<>>
    /\ percentile = <<1, 1>>
    /\ pc = "idle"
    /\ exc = None
    /\ meta = None
    /\ fig = None
    /\ locals = None

NextAgg == BuildDfAverages \/ BuildLeagueTables

SpecAgg == InitAgg /\ [][NextAgg]_vars

-----------------------------------------------------------------------------
(* Vocabulary of the properties of compare_player_to_eredivisie, stated on   *)
(* the arguments of the call rather than on the function's locals.          *)

Called == pc \in {"returned", "raised"}

PercentileInRange == percentile[1] > 0 /\ percentile[1] <= percentile[2]

\* Indices of the subject cohort's entries with a given name
Matches(name) ==
    {i \in 1..Len(kkd_averages_plus3matches) :
        kkd_averages_plus3matches[i].player_name = name}

FirstMatch(name) ==
    kkd_averages_plus3matches[CHOOSE i \in Matches(name) : \A j \in Matches(name) : i <= j]

SecondRequested == second_player_name # None /\ second_player_name[1] # ""

\* The call gets as far as the benchmark selection.
SubjectsFound ==
    /\ PercentileInRange
    /\ Matches(player_name) # {}
    /\ SecondRequested => Matches(second_player_name[1]) # {}

ResolvedPosition ==
    IF position_plot # None THEN position_plot[1] ELSE FirstMatch(player_name).position

\* Indices of the benchmark cohort's entries at the resolved position
Group ==
    {i \in 1..Len(eredivisie_averages_plus3matches) :
        eredivisie_averages_plus3matches[i].position = ResolvedPosition}

\* The maximum of each scoring metric over the whole benchmark cohort
CohortMax ==
    [m \in {"avg_total_distance", "avg_HI_runs", "avg_sprint_runs"} |->
        SetMax({eredivisie_averages_plus3matches[i][m] :
                    i \in 1..Len(eredivisie_averages_plus3matches)})]

\* value / cohort-wide maximum, or 0 when that maximum is not positive
NormalisedTerm(row, m, max) ==
    IF max[m] > 0 THEN Rat(row[m], max[m]) ELSE Rat(0, 1)

CompositeScore(row, max) ==
    RatAdd(NormalisedTerm(row, "avg_total_distance", max),
           RatAdd(NormalisedTerm(row, "avg_HI_runs", max),
                  NormalisedTerm(row, "avg_sprint_runs", max)))

\* The composite score of every entry of the position group
GroupScores ==
    CHOOSE score \in
        {[i \in Group |-> CompositeScore(eredivisie_averages_plus3matches[i], max)] :
            max \in {CohortMax}} : TRUE

\* The entry the call reports as benchmark, without its score
BenchmarkEntry ==
    [f \in DOMAIN locals[1].benchmark_player \ {"focused_score"} |->
        locals[1].benchmark_player[f]]

BenchmarkInGroup ==
    \E i \in Group :
        /\ eredivisie_averages_plus3matches[i] = BenchmarkEntry
        /\ meta[1].benchmark_name = eredivisie_averages_plus3matches[i].player_name

PercentileError == ValueError(<<"percentile must be in (0, 1].">>)

-----------------------------------------------------------------------------
(* C1: with percentile = 1.0 and a non-empty position group, the call      *)
(* returns, and the benchmark is an entry of the group whose composite     *)
(* score is the maximum over the group.                                    *)
C1_PercentileOneSelectsMaximum ==
    (Called /\ SubjectsFound /\ Group # {} /\ percentile[1] = percentile[2]) =>
        /\ pc = "returned"
        /\ BenchmarkInGroup
        /\ \A score \in {GroupScores} : \A i \in Group :
            RatLeq(score[i], CompositeScore(BenchmarkEntry, CohortMax))

\* Reached: percentile 1.0, a group with different scores whose maximum is
\* not its last entry.
C1_Witness ==
    /\ pc = "returned"
    /\ percentile[1] = percentile[2]
    /\ \E i \in Group : \E j \in Group :
        /\ i < j
        /\ RatLess(GroupScores[j], GroupScores[i])
        /\ eredivisie_averages_plus3matches[i] = BenchmarkEntry

(* C2: for a group of n >= 1 entries and a percentile p in (0, 1], the rank  *)
(* index is min(floor(p * n), n - 1), lies in [0, n - 1], and the benchmark  *)
(* is an entry of the group holding the score at that index of the scores    *)
(* in ascending order; n = 10 and p = 0.5 give index 5; p < 1/n gives index  *)
(* 0 and a benchmark of minimum score.                                       *)
C2_RankIndex ==
    (Called /\ SubjectsFound /\ Group # {}) =>
        \A score \in {GroupScores} :
        \A benchmark_score \in {CompositeScore(BenchmarkEntry, CohortMax)} :
        LET n == Cardinality(Group)
            t == locals[1].target_index
            sorted == locals[1].focused_score
        IN  /\ pc = "returned"
            /\ locals[1].count = n
            /\ t = Min((percentile[1] * n) \div percentile[2], n - 1)
            /\ 0 <= t /\ t <= n - 1
            /\ Len(sorted) = n
            /\ \A a \in 1..(n - 1) : RatLeq(sorted[a], sorted[a + 1])
            /\ \A i \in Group :
                Cardinality({a \in 1..n : sorted[a] = score[i]})
                    = Cardinality({j \in Group : score[j] = score[i]})
            /\ BenchmarkInGroup
            /\ benchmark_score = sorted[t + 1]
            /\ (n = 10 /\ 2 * percentile[1] = percentile[2]) => t = 5
            /\ (percentile[1] * n < percentile[2]) =>
                /\ t = 0
                /\ \A i \in Group : RatLeq(benchmark_score, score[i])

\* Reached: ten entries in the group, percentile 0.5, index 5, and the
\* entries below and above the index score differently.
C2_Witness ==
    /\ pc = "returned"
    /\ Cardinality(Group) = 10
    /\ 2 * percentile[1] = percentile[2]
    /\ locals[1].target_index = 5
    /\ RatLess(locals[1].focused_score[5], locals[1].focused_score[6])

(* C4: a percentile outside (0, 1] makes the call fail with ValueError      *)
(* "percentile must be in (0, 1]." and produce no result, whatever the      *)
(* other arguments are; a percentile inside (0, 1] never raises that error. *)
C4_InvalidPercentile ==
    Called =>
        /\ ~PercentileInRange =>
            (pc = "raised" /\ exc = Some(PercentileError)
                /\ meta = None /\ fig = None /\ locals = None)
        /\ PercentileInRange => exc # Some(PercentileError)

\* Reached: percentile 0 rejected although both subjects and the position
\* group exist.
C4_Witness ==
    /\ pc = "raised"
    /\ percentile[1] = 0
    /\ exc = Some(PercentileError)
    /\ Matches(player_name) # {}
    /\ SecondRequested /\ Matches(second_player_name[1]) # {}
    /\ Group # {}

(* C5: with a valid percentile, a first subject name that no entry of the   *)
(* subject cohort carries makes the call fail with a ValueError naming the  *)
(* player, and no benchmark is selected; when the call returns, the first   *)
(* entry with that name supplies the subject's position, club and values.   *)
C5_FirstSubjectLookup ==
    /\ (Called /\ PercentileInRange /\ Matches(player_name) = {}) =>
        /\ pc = "raised"
        /\ exc = Some(ValueError(<<"Player 1 '", player_name, "' not found in table.">>))
        /\ meta = None /\ locals = None
    /\ pc = "returned" =>
        /\ Matches(player_name) # {}
        /\ meta[1].player1_club = FirstMatch(player_name).club
        /\ fig[1].p1_values =
            [k \in 1..5 |-> FirstMatch(player_name)[METRICS_PLOT[k]]]
        /\ fig[1].p1_games = FirstMatch(player_name).matches_more_than_80
        /\ position_plot = None =>
            meta[1].target_position = FirstMatch(player_name).position

\* Reached: the name occurs twice with different clubs and positions, and
\* the call returns with the position taken from the subject.
C5_Witness ==
    /\ pc = "returned"
    /\ position_plot = None
    /\ \E i \in Matches(player_name) :
        /\ kkd_averages_plus3matches[i].club # FirstMatch(player_name).club
        /\ kkd_averages_plus3matches[i].position # FirstMatch(player_name).position

(* C6: when the subjects are found and no entry of the benchmark cohort is  *)
(* at the resolved position (the override if given, else the first          *)
(* subject's own), the call fails with the ValueError naming that position  *)
(* and returns no benchmark; an empty benchmark cohort is one such case.    *)
C6_NoDataForPosition ==
    (Called /\ SubjectsFound /\ Group = {}) =>
        /\ pc = "raised"
        /\ exc = Some(ValueError(<<"No Eredivisie data found for position '",
                                   ResolvedPosition, "'.">>))
        /\ meta = None /\ locals = None

\* Reached: a benchmark cohort with entries, none of them at the overriding
\* position, which differs from the subject's own.
C6_Witness ==
    /\ pc = "raised"
    /\ SubjectsFound
    /\ Group = {}
    /\ eredivisie_averages_plus3matches # <<>>
    /\ position_plot # None
    /\ position_plot[1] # FirstMatch(player_name).position
    /\ exc[1].msg[2] = position_plot[1]

(* C3: when a second subject is requested and no entry of the subject       *)
(* cohort carries its name (the percentile being valid and the first        *)
(* subject found), the call fails with a ValueError whose message names     *)
(* the missing second player.                                               *)
C3_SecondSubjectNotFound ==
    (Called /\ PercentileInRange /\ Matches(player_name) # {}
        /\ SecondRequested /\ Matches(second_player_name[1]) = {}) =>
        /\ pc = "raised"
        /\ exc[1].type = "ValueError"
        /\ \E k \in 1..Len(exc[1].msg) : exc[1].msg[k] = second_player_name[1]
        /\ meta = None

(* C9: the composite score of every entry of the position group is the sum  *)
(* over average total distance, average high-intensity runs and average     *)
(* sprint runs of value / maximum of the metric over the whole benchmark    *)
(* cohort, a metric whose maximum is not positive contributing 0.           *)
C9_CompositeScore ==
    pc = "returned" =>
        \A score \in {GroupScores} :
            /\ Len(locals[1].df_ere) = Cardinality(Group)
            /\ \A i \in Group : \E k \in 1..Len(locals[1].df_ere) :
                /\ locals[1].df_ere[k].player_name
                        = eredivisie_averages_plus3matches[i].player_name
                /\ locals[1].df_ere[k].focused_score = score[i]
            /\ locals[1].benchmark_player.focused_score
                    = CompositeScore(BenchmarkEntry, CohortMax)

\* Reached: one scoring metric has cohort-wide maximum 0 although an entry of
\* the group has a non-zero value of it, and another has a positive maximum
\* that no entry of the group attains.
C9_Witness ==
    /\ pc = "returned"
    /\ \E m \in DOMAIN CohortMax :
        /\ CohortMax[m] = 0
        /\ \E i \in Group : eredivisie_averages_plus3matches[i][m] # 0
    /\ \E m \in DOMAIN CohortMax :
        /\ CohortMax[m] > 0
        /\ \A i \in Group : eredivisie_averages_plus3matches[i][m] < CohortMax[m]

\* The indices of the group in ascending score order, entries of equal score
\* in their order in the cohort (what a stable sort returns).
RECURSIVE InsertStable(_, _, _)
InsertStable(order, i, score) ==
    IF order = <<>> THEN <<i>>
    ELSE IF RatLess(score[i], score[Head(order)]) THEN <<i>> \o order
         ELSE <<Head(order)>> \o InsertStable(Tail(order), i, score)

RECURSIVE StableOrderUpTo(_, _)
StableOrderUpTo(k, score) ==
    IF k = 0 THEN <<>>
    ELSE IF k \in DOMAIN score
         THEN InsertStable(StableOrderUpTo(k - 1, score), k, score)
         ELSE StableOrderUpTo(k - 1, score)

StableOrder(score) == StableOrderUpTo(Len(eredivisie_averages_plus3matches), score)

(* C10, as stated: the group is sorted by score with a stable tie-break,    *)
(* so the benchmark is the entry at the rank index of the stable order.     *)
C10_StableTieBreak ==
    pc = "returned" =>
        \A score \in {GroupScores} :
            BenchmarkEntry =
                eredivisie_averages_plus3matches[
                    StableOrder(score)[locals[1].target_index + 1]]

(* C10, amended: the group is sorted by score ascending; the benchmark is   *)
(* an entry of the group whose score is the score at the rank index, and it *)
(* is the entry a stable sort puts there whenever no other entry of the     *)
(* group has the same score.                                                *)
C10_RankScoreDetermined ==
    pc = "returned" =>
        \A score \in {GroupScores} : \A order \in {StableOrder(score)} :
            LET at == order[locals[1].target_index + 1]
            IN  /\ BenchmarkInGroup
                /\ locals[1].focused_score = [k \in 1..Len(order) |-> score[order[k]]]
                /\ locals[1].benchmark_player.focused_score = score[at]
                /\ (\A j \in Group \ {at} : score[j] # score[at]) =>
                        BenchmarkEntry = eredivisie_averages_plus3matches[at]

\* Reached: two entries of the group share the score at the rank index, and
\* the benchmark is the one a stable sort would not have put there.
C10_Witness ==
    /\ pc = "returned"
    /\ \E at \in {StableOrder(GroupScores)[locals[1].target_index + 1]} :
        /\ BenchmarkEntry # eredivisie_averages_plus3matches[at]
        /\ locals[1].benchmark_player.focused_score = GroupScores[at]

-----------------------------------------------------------------------------
(* Vocabulary of the properties of build_df_averages and build_league_tables *)

KeyOf(row) == <<row.player_id, row.player_name, row.club, row.position, row.division>>

\* Indices of the raw rows of a key that count as qualifying matches
Qualifying(key) ==
    {i \in 1..Len(df_all) : KeyOf(df_all[i]) = key /\ df_all[i].Minutes >= 80}

RECURSIVE Total(_, _)
Total(rows, col) ==
    IF rows = {} THEN 0
    ELSE LET i == CHOOSE j \in rows : TRUE
         IN  df_all[i][col] + Total(rows \ {i}, col)

\* sum / count = average, without dividing
IsAverageOf(average, rows, col) ==
    average[1] * Cardinality(rows) = average[2] * Total(rows, col)

(* C7: when all required columns are present, build_df_averages returns     *)
(* exactly one entry per key (player id, name, club, position, division)    *)
(* that has a record with minutes >= 80 and none for any other key; an      *)
(* entry's match count is the number of the key's records with minutes      *)
(* >= 80, never 0, and its averages are taken over those records only.      *)
C7_Aggregation ==
    /\ (agg_pc # "loaded" /\ Range(required_cols) \subseteq columns) =>
            agg_pc \in {"averaged", "partitioned"}
    /\ agg_pc \in {"averaged", "partitioned"} =>
        /\ \A a \in 1..Len(df_averages) : \A b \in 1..Len(df_averages) :
            KeyOf(df_averages[a]) = KeyOf(df_averages[b]) => a = b
        /\ {KeyOf(df_averages[g]) : g \in 1..Len(df_averages)}
                = {KeyOf(df_all[i]) : i \in {j \in 1..Len(df_all) : df_all[j].Minutes >= 80}}
        /\ \A g \in 1..Len(df_averages) :
            \A rows \in {Qualifying(KeyOf(df_averages[g]))} :
                /\ df_averages[g].matches_more_than_80 = Cardinality(rows)
                /\ df_averages[g].matches_more_than_80 >= 1
                /\ IsAverageOf(df_averages[g].avg_total_distance, rows, "total_distance")
                /\ IsAverageOf(df_averages[g].avg_HI_distance, rows, "high_intensity_distance")
                /\ IsAverageOf(df_averages[g].avg_sprint_distance, rows, "sprint_distance")
                /\ IsAverageOf(df_averages[g].avg_HI_runs, rows, "hi_runs")
                /\ IsAverageOf(df_averages[g].avg_sprint_runs, rows, "sprint_runs")

\* Reached: a key with two qualifying records and a record below the
\* threshold whose distance would change the average, and another key whose
\* records are all below the threshold.
C7_Witness ==
    /\ agg_pc = "averaged"
    /\ \E g \in 1..Len(df_averages) : \E i \in 1..Len(df_all) :
        /\ df_averages[g].matches_more_than_80 = 2
        /\ KeyOf(df_all[i]) = KeyOf(df_averages[g])
        /\ df_all[i].Minutes < 80
        /\ df_averages[g].avg_total_distance # Rat(df_all[i].total_distance, 1)
    /\ \E i \in 1..Len(df_all) :
        \A g \in 1..Len(df_averages) : KeyOf(df_all[i]) # KeyOf(df_averages[g])

InLeague(division) ==
    {df_averages[g] : g \in {h \in 1..Len(df_averages) :
        /\ df_averages[h].division = division
        /\ df_averages[h].matches_more_than_80 > 2}}

(* C8: each cohort build_league_tables returns holds exactly the entries of *)
(* the averages that have the cohort's division and a match count > 2,      *)
(* each once; with no such entry the cohort is empty and nothing is raised. *)
C8_LeagueTables ==
    agg_pc = "partitioned" =>
        /\ Range(eredivisie_plus3) = InLeague("Eredivisie")
        /\ Range(kkd_plus3) = InLeague("KKD")
        /\ Len(eredivisie_plus3) = Cardinality(InLeague("Eredivisie"))
        /\ Len(kkd_plus3) = Cardinality(InLeague("KKD"))
        /\ agg_exc = None

\* Reached: an Eredivisie entry with 3 matches is kept, another with fewer
\* is left out, and the KKD cohort is empty.
C8_Witness ==
    /\ agg_pc = "partitioned"
    /\ eredivisie_plus3 # <<>>
    /\ kkd_plus3 = <<>>
    /\ \E g \in 1..Len(df_averages) :
        /\ df_averages[g].division = "Eredivisie"
        /\ df_averages[g].matches_more_than_80 <= 2

====
